---- MODULE Spec2Model ----
(***************************************************************************)
(* Model of modern_win32::process_information                              *)
(* (src/src/modern_win32/process_information.cpp): an aggregate owning a   *)
(* process handle, a thread handle and a thread id.  The two handle        *)
(* members are unique_handle specialisations; a raw handle is a number,    *)
(* 0 being the invalid value.  CloseHandle calls made by an operation are  *)
(* recorded, in order, in last.closed.                                     *)
(* The second part models the timer tests                                  *)
(* (src/tests/modern_win32_test/timer_test.cpp): a test thread that        *)
(* constructs a timer and an event, starts the timer and waits for the     *)
(* event, and the timer's thread that runs the callback.                   *)
(***************************************************************************)
EXTENDS Integers, Sequences, FiniteSets, TLC

\* ---------------------------------------------------------------- bounds
\* number of named process_information objects of the client program
NObj == 2
\* raw handle values are 0..MaxHandle
MaxHandle == 2
\* thread ids are 0..MaxTid
MaxTid == 1
\* call-stack capacity, in operator= frames
MaxDepth == 3

VARIABLES objs, stack, status, last, ledger, timer, event, test, now

\* the process_information objects and the call in progress
infoVars == <<objs, stack, status, last>>

\* the timer, the event and the test thread of the timer tests, and the clock
timerVars == <<timer, event, test, now>>

vars == <<objs, stack, status, last, ledger, timer, event, test, now>>

\* ---------------------------------------------------------------- values
InvalidHandle == 0

Handles == 0..MaxHandle

ThreadIds == 0..MaxTid

Objects == 1..NObj

\* slot NObj + k holds the temporary of the std::swap run by frame k
Slots == 1..(NObj + MaxDepth)

TmpSlot(k) == NObj + k

\* process id the OS reports for the process behind a valid handle
PidOf(h) == h + MaxHandle

ProcessIds == {0} \cup {PidOf(h) : h \in Handles}

\* the three data members of a process_information
EmptyInfo ==
    [m_process_thread_id |-> 0,
     m_process |-> InvalidHandle,
     m_process_thread_handle |-> InvalidHandle]

Infos ==
    [m_process_thread_id : ThreadIds,
     m_process : Handles,
     m_process_thread_handle : Handles]

\* deconstruct_type: (process_id, thread_id, process handle, thread handle);
\* the process id is 0 or the id that goes with the process handle
DeconstructTypes ==
    {t \in ProcessIds \X ThreadIds \X Handles \X Handles : t[1] \in {0, PidOf(t[3])}}

ZeroTuple == <<0, 0, InvalidHandle, InvalidHandle>>

\* PROCESS_INFORMATION
NativeTypes ==
    {n \in [hProcess : Handles, hThread : Handles,
            dwProcessId : ProcessIds, dwThreadId : ThreadIds] :
        n.dwProcessId \in {0, PidOf(n.hProcess)}}

TupleOf(n) == <<n.dwProcessId, n.dwThreadId, n.hProcess, n.hThread>>

\* ------------------------------------------------- unique_handle<TRAITS>
\* operator bool: the handle is not the invalid value
handle_valid(h) == h # InvalidHandle

\* reset(native): closes the handle currently owned, if any, then stores native
handle_reset(h, native) ==
    [h |-> native,
     closed |-> IF handle_valid(h) THEN <<h>> ELSE <<>>,
     ret |-> handle_valid(native)]

\* release(): hands the raw handle out and clears the member without closing
handle_release(h) == [h |-> InvalidHandle, closed |-> <<>>, ret |-> h]

\* process_handle::get_process_id(): nullopt for an invalid handle or a failed query
get_process_id(h) == IF handle_valid(h) THEN {0, PidOf(h)} ELSE {0}

\* ---------------------------------------------------- process_information
\* variant of OperatorBool: one valid handle is enough
OperatorBool_Either(p) == handle_valid(p.m_process) \/ handle_valid(p.m_process_thread_handle)

\* process_information::operator bool
OperatorBool(p) == handle_valid(p.m_process) /\ handle_valid(p.m_process_thread_handle)

\* variant of EqualsTuple: every index one too low
EqualsTuple_OffByOne(p, t) ==
    /\ p.m_process_thread_id = t[1]
    /\ p.m_process = t[2]
    /\ p.m_process_thread_handle = t[3]

\* operator==(process_information const&, deconstruct_type const&)
EqualsTuple(p, t) ==
    /\ p.m_process_thread_id = t[2]
    /\ p.m_process = t[3]
    /\ p.m_process_thread_handle = t[4]

\* operator==(process_information const&, PROCESS_INFORMATION const&)
EqualsNative(p, n) ==
    /\ p.m_process_thread_id = n.dwThreadId
    /\ p.m_process = n.hProcess
    /\ p.m_process_thread_handle = n.hThread

\* variant of EqualsInfo: identity only
EqualsInfo_AddressOnly(o, i, j) == i = j

\* operator==(process_information const&, process_information const&) on slots i, j
EqualsInfo(o, i, j) ==
    \/ i = j
    \/ /\ o[i].m_process_thread_id = o[j].m_process_thread_id
       /\ o[i].m_process = o[j].m_process
       /\ o[i].m_process_thread_handle = o[j].m_process_thread_handle

\* operator!=(process_information const&, process_information const&)
NotEqualsInfo(o, i, j) == ~EqualsInfo(o, i, j)

\* operator!=(process_information const&, PROCESS_INFORMATION const&)
NotEqualsNative(p, n) == ~EqualsNative(p, n)

\* operator==(PROCESS_INFORMATION const&, process_information const&)
NativeEquals(n, p) == EqualsNative(p, n)

\* operator!=(PROCESS_INFORMATION const&, process_information const&)
NativeNotEquals(n, p) == ~NativeEquals(n, p)

\* operator!=(process_information const&, deconstruct_type const&)
NotEqualsTuple(p, t) == ~EqualsTuple(p, t)

\* operator==(deconstruct_type const&, process_information const&)
TupleEquals(t, p) == EqualsTuple(p, t)

\* operator!=(deconstruct_type const&, process_information const&)
TupleNotEquals(t, p) == ~TupleEquals(t, p)

\* variant of close: the handles are closed but the members keep their values
close_NoClear(p) ==
    IF handle_valid(p.m_process) /\ handle_valid(p.m_process_thread_handle)
    THEN [obj |-> [p EXCEPT !.m_process_thread_id = 0],
          closed |-> <<p.m_process, p.m_process_thread_handle>>]
    ELSE [obj |-> p, closed |-> <<>>]

\* process_information::close
close(p) ==
    IF OperatorBool(p)
    THEN LET r1 == handle_reset(p.m_process, InvalidHandle)
             r2 == handle_reset(p.m_process_thread_handle, InvalidHandle)
         IN [obj |-> [m_process_thread_id |-> 0,
                      m_process |-> r1.h,
                      m_process_thread_handle |-> r2.h],
             closed |-> r1.closed \o r2.closed]
    ELSE [obj |-> p, closed |-> <<>>]

\* variant of reset_tuple: the current handles are overwritten, not closed
reset_tuple_NoClose(p, t) ==
    IF p.m_process_thread_id = t[2] /\ p.m_process = t[3] /\ p.m_process_thread_handle = t[4]
    THEN [obj |-> p, closed |-> <<>>,
          ret |-> (p.m_process # InvalidHandle /\ p.m_process_thread_handle # InvalidHandle)]
    ELSE [obj |-> [m_process_thread_id |-> t[2], m_process |-> t[3],
                   m_process_thread_handle |-> t[4]],
          closed |-> <<>>,
          ret |-> (t[3] # InvalidHandle /\ t[4] # InvalidHandle)]

\* variant of reset_tuple: the two handles are taken from each other's index
reset_tuple_SwappedIndex(p, t) ==
    IF p.m_process_thread_id = t[2] /\ p.m_process = t[3] /\ p.m_process_thread_handle = t[4]
    THEN [obj |-> p, closed |-> <<>>,
          ret |-> (p.m_process # InvalidHandle /\ p.m_process_thread_handle # InvalidHandle)]
    ELSE [obj |-> [m_process_thread_id |-> t[2], m_process |-> t[4],
                   m_process_thread_handle |-> t[3]],
          closed |-> SelectSeq(<<p.m_process, p.m_process_thread_handle>>, handle_valid),
          ret |-> (t[3] # InvalidHandle /\ t[4] # InvalidHandle)]

\* process_information::reset(deconstruct_type&&)
reset_tuple(p, t) ==
    IF EqualsTuple(p, t)
    THEN [obj |-> p, closed |-> <<>>, ret |-> OperatorBool(p)]
    ELSE LET c == close(p)
             r1 == handle_reset(c.obj.m_process, t[3])
             r2 == handle_reset(c.obj.m_process_thread_handle, t[4])
             new == [m_process_thread_id |-> t[2],
                     m_process |-> r1.h,
                     m_process_thread_handle |-> r2.h]
         IN [obj |-> new,
             closed |-> c.closed \o r1.closed \o r2.closed,
             ret |-> OperatorBool(new)]

\* variant of reset_native: no early return for an equal structure
reset_native_NoEqualCheck(p, n) ==
    [obj |-> [m_process_thread_id |-> n.dwThreadId, m_process |-> n.hProcess,
              m_process_thread_handle |-> n.hThread],
     closed |-> SelectSeq(<<p.m_process, p.m_process_thread_handle>>, handle_valid),
     ret |-> (n.hProcess # InvalidHandle /\ n.hThread # InvalidHandle)]

\* process_information::reset(native_handle_type const&)
reset_native(p, n) ==
    IF EqualsNative(p, n)
    THEN [obj |-> p, closed |-> <<>>, ret |-> OperatorBool(p)]
    ELSE LET c == close(p)
             r1 == handle_reset(c.obj.m_process, n.hProcess)
             r2 == handle_reset(c.obj.m_process_thread_handle, n.hThread)
             new == [m_process_thread_id |-> n.dwThreadId,
                     m_process |-> r1.h,
                     m_process_thread_handle |-> r2.h]
         IN [obj |-> new,
             closed |-> c.closed \o r1.closed \o r2.closed,
             ret |-> OperatorBool(new)]

\* variant of release: the thread id is not zeroed
release_KeepsThreadId(p, pid) ==
    [obj |-> [p EXCEPT !.m_process = InvalidHandle, !.m_process_thread_handle = InvalidHandle],
     closed |-> <<>>,
     ret |-> <<pid, p.m_process_thread_id, p.m_process, p.m_process_thread_handle>>]

\* variant of release: the handles are read with native_handle(), not released
release_Copies(p, pid) ==
    [obj |-> [p EXCEPT !.m_process_thread_id = 0],
     closed |-> <<>>,
     ret |-> <<pid, p.m_process_thread_id, p.m_process, p.m_process_thread_handle>>]

\* process_information::release; pid is the outcome of the process id query
release(p, pid) ==
    LET r1 == handle_release(p.m_process)
        r2 == handle_release(p.m_process_thread_handle)
    IN [obj |-> [m_process_thread_id |-> 0,
                 m_process |-> r1.h,
                 m_process_thread_handle |-> r2.h],
        closed |-> r1.closed \o r2.closed,
        ret |-> <<pid, p.m_process_thread_id, r1.ret, r2.ret>>]

\* variant of native_handle: hThread is read from the process handle member
native_handle_WrongMember(p, pid) ==
    [hProcess |-> p.m_process,
     hThread |-> p.m_process,
     dwProcessId |-> IF p.m_process # InvalidHandle THEN pid ELSE 0,
     dwThreadId |-> p.m_process_thread_id]

\* process_information::native_handle; pid is the outcome of the process id
\* query, 0 when it fails
native_handle(p, pid) ==
    [hProcess |-> p.m_process,
     hThread |-> p.m_process_thread_handle,
     dwProcessId |-> IF handle_valid(p.m_process) THEN pid ELSE 0,
     dwThreadId |-> p.m_process_thread_id]

\* variant of move_construct: the source's members are copied, not released
move_construct_NoRelease(other) ==
    [obj |-> other, other |-> other, closed |-> <<>>]

\* process_information(process_information&& other); the process id that
\* release() reports is discarded, so the outcome of its query is immaterial
move_construct(other) ==
    LET rel == release(other, 0)
        r1 == handle_reset(InvalidHandle, rel.ret[3])
        r2 == handle_reset(InvalidHandle, rel.ret[4])
    IN [obj |-> [m_process_thread_id |-> rel.ret[2],
                 m_process |-> r1.h,
                 m_process_thread_handle |-> r2.h],
        other |-> rel.obj,
        closed |-> rel.closed \o r1.closed \o r2.closed]

\* ~process_information: close(), then the members' destructors
destroy(p) ==
    LET c == close(p)
        r1 == handle_reset(c.obj.m_process, InvalidHandle)
        r2 == handle_reset(c.obj.m_process_thread_handle, InvalidHandle)
    IN [closed |-> c.closed \o r1.closed \o r2.closed]

\* ------------------------------------------------------ timers and events
\* number of callback invocations followed
MaxFires == 2

\* the state value the tests construct the timer with and the callback expects
ExpectedState == 3

\* the time the test waits for the event, in ms
Timeout == 1000

\* the durations handed to start(), in ms
Durations == {-100, -50, 0, 10, 100}

\* the state values a timer is constructed with
StateValues == {ExpectedState, ExpectedState + 1}

TimerKinds == {"delayed_callback", "synchronization_timer"}

DueTimeMessage == "due_time must be greater than or equal to zero"

PeriodMessage == "period must be greater than or equal to zero"

\* variant of start: the period is validated first
start_PeriodFirst(due_time, period) ==
    IF period < 0 THEN [error |-> PeriodMessage, armed |-> FALSE]
    ELSE IF due_time < 0 THEN [error |-> DueTimeMessage, armed |-> FALSE]
    ELSE [error |-> "", armed |-> TRUE]

\* variant of start: the timer is armed before the period is validated
start_ArmsFirst(due_time, period) ==
    IF due_time < 0 THEN [error |-> DueTimeMessage, armed |-> FALSE]
    ELSE IF period < 0 THEN [error |-> PeriodMessage, armed |-> TRUE]
    ELSE [error |-> "", armed |-> TRUE]

\* delayed_callback::start / synchronization_timer::start: the message of the
\* invalid_argument thrown ("" when none is) and whether the timer gets armed
start(due_time, period) ==
    IF due_time < 0 THEN [error |-> DueTimeMessage, armed |-> FALSE]
    ELSE IF period < 0 THEN [error |-> PeriodMessage, armed |-> FALSE]
    ELSE [error |-> "", armed |-> TRUE]

\* variant of event_set: waiters are woken but the signal is not kept
event_set_Pulse(e) == [e EXCEPT !.wasSet = TRUE]

\* manual_reset_event::set
event_set(e) == [e EXCEPT !.signaled = TRUE, !.wasSet = TRUE]

\* manual_reset_event::wait_one(timeout) after elapsed ms of waiting:
\* "pending" while the waiter stays blocked
wait_one(e, elapsed, timeout) ==
    IF e.signaled THEN "signaled"
    ELSE IF elapsed >= timeout THEN "timeout"
    ELSE "pending"

\* variant of callback_body: the event is set before called
callback_body_SetFirst == <<"set", "called">>

\* the statements of the tests' callback under  if (state == expected_state)
callback_body == <<"called", "set">>

\* timer : kind, state (the stored State), armed, period, next (the time of
\*         the next invocation, -1 when none is scheduled), fires (the number
\*         of invocations so far), cb (the index in callback_body of the
\*         statement the running callback executes next, 0 when none runs),
\*         arg (the state the last invocation was handed) and thread (the
\*         thread that ran it)
NoTimer ==
    [kind |-> "none", state |-> 0, armed |-> FALSE, period |-> 0, next |-> -1,
     fires |-> 0, cb |-> 0, arg |-> 0, thread |-> "none"]

\* manual_reset_event callback_event{false}; wasSet tells that set() was called
NoEvent == [signaled |-> FALSE, wasSet |-> FALSE]

\* test  : pc (the test thread's position), called (the flag the callback
\*         sets), due and period (the arguments of start), error (the message
\*         caught), waitStart, waitAfterSet (the event was set when the wait
\*         began), waitResult, setSeen (set() had been called when the wait
\*         returned) and read (the value ASSERT_TRUE read from called)
TestAtStart ==
    [pc |-> "construct", called |-> FALSE, due |-> 0, period |-> 0, error |-> "",
     waitStart |-> 0, waitAfterSet |-> FALSE, waitResult |-> "none",
     setSeen |-> FALSE, read |-> FALSE]

\* ledger : what became of each raw handle value.  at[h] is "free" (no open
\*          handle has the value h), "owned" (open, adopted by an object) or
\*          "out" (open, in the client's hands after release()); twice holds
\*          the values CloseHandle was called on while not open.  Only
\*          SpecLife keeps the ledger.
NoLedger == [at |-> [h \in Handles \ {InvalidHandle} |-> "free"], twice |-> {}]

\* the steps of the process_information specifications leave these alone
Aside == UNCHANGED <<ledger, timerVars>>

TimerIdle ==
    /\ timer = NoTimer
    /\ event = NoEvent
    /\ test = TestAtStart
    /\ now = 0

\* ------------------------------------------------------------- the state
\* objs[s]  : the data members of the object in slot s (EmptyInfo when dead)
\* live     : carried in objs[s].live
\* stack    : the operator= calls in progress, innermost last
\* status   : "ok", or "overflow" once the call stack is exhausted
\* last     : the operation executed last, its inputs, results and closes;
\*            outcome is "running" while an operator= is in progress, again
\*            tells that the call before was the same call on the same
\*            object and before holds what that call closed; cmp holds the
\*            results of ==, == reversed, != and != reversed, cmpAlt the
\*            same for the right operand with another process id
Obj(live, p) ==
    [live |-> live,
     m_process_thread_id |-> p.m_process_thread_id,
     m_process |-> p.m_process,
     m_process_thread_handle |-> p.m_process_thread_handle]

Info(o) ==
    [m_process_thread_id |-> o.m_process_thread_id,
     m_process |-> o.m_process,
     m_process_thread_handle |-> o.m_process_thread_handle]

DeadObj == Obj(FALSE, EmptyInfo)

NoOp ==
    [op |-> "none", obj |-> 0, other |-> 0,
     pre |-> EmptyInfo, preOther |-> EmptyInfo,
     arg |-> ZeroTuple, retBool |-> FALSE, retTuple |-> ZeroTuple,
     closed |-> <<>>, again |-> FALSE, before |-> <<>>, outcome |-> "returned",
     cmp |-> <<>>, cmpAlt |-> <<>>]

Idle == status = "ok" /\ stack = <<>>

\* process_information()
Init ==
    /\ objs = [s \in Slots |-> IF s \in Objects THEN Obj(TRUE, EmptyInfo) ELSE DeadObj]
    /\ stack = <<>>
    /\ status = "ok"
    /\ last = NoOp
    /\ ledger = NoLedger
    /\ TimerIdle

\* process_information() on a slot holding no object
Construct(i) ==
    /\ Idle /\ ~objs[i].live
    /\ objs' = [objs EXCEPT ![i] = Obj(TRUE, EmptyInfo)]
    /\ last' = [NoOp EXCEPT !.op = "construct", !.obj = i]
    /\ UNCHANGED <<stack, status>>

\* process_information(native_handle_type const&)
ConstructNative(i, n) ==
    /\ Idle /\ ~objs[i].live
    /\ objs' = [objs EXCEPT ![i] =
                   Obj(TRUE, [m_process_thread_id |-> n.dwThreadId,
                              m_process |-> n.hProcess,
                              m_process_thread_handle |-> n.hThread])]
    /\ last' = [NoOp EXCEPT !.op = "construct_native", !.obj = i, !.arg = TupleOf(n)]
    /\ UNCHANGED <<stack, status>>

\* process_information b(std::move(a)): i is the new object, j the source
MoveConstruct(i, j) ==
    /\ Idle /\ ~objs[i].live /\ objs[j].live /\ i # j
    /\ LET m == move_construct(Info(objs[j]))
       IN /\ objs' = [objs EXCEPT ![i] = Obj(TRUE, m.obj), ![j] = Obj(TRUE, m.other)]
          /\ last' = [NoOp EXCEPT !.op = "move_construct", !.obj = i, !.other = j,
                                  !.preOther = Info(objs[j]), !.closed = m.closed]
    /\ UNCHANGED <<stack, status>>

\* ~process_information; other is the object that the call just before
\* move-constructed from this one, 0 when that call was another
Destroy(i) ==
    /\ Idle /\ objs[i].live
    /\ objs' = [objs EXCEPT ![i] = DeadObj]
    /\ last' = [NoOp EXCEPT !.op = "destroy", !.obj = i, !.pre = Info(objs[i]),
                            !.other = IF last.op = "move_construct" /\ last.other = i
                                      THEN last.obj ELSE 0,
                            !.closed = destroy(Info(objs[i])).closed]
    /\ UNCHANGED <<stack, status>>

\* close()
Close(i) ==
    /\ Idle /\ objs[i].live
    /\ LET c == close(Info(objs[i]))
       IN /\ objs' = [objs EXCEPT ![i] = Obj(TRUE, c.obj)]
          /\ last' = [NoOp EXCEPT !.op = "close", !.obj = i, !.pre = Info(objs[i]),
                                  !.closed = c.closed,
                                  \* the call before it was close() on this object too
                                  !.again = (last.op = "close" /\ last.obj = i),
                                  !.before = IF last.op = "close" /\ last.obj = i
                                             THEN last.closed ELSE <<>>]
    /\ UNCHANGED <<stack, status>>

\* reset(deconstruct_type&&)
ResetTuple(i, t) ==
    /\ Idle /\ objs[i].live
    /\ LET r == reset_tuple(Info(objs[i]), t)
       IN /\ objs' = [objs EXCEPT ![i] = Obj(TRUE, r.obj)]
          /\ last' = [NoOp EXCEPT !.op = "reset_tuple", !.obj = i, !.pre = Info(objs[i]),
                                  !.arg = t, !.retBool = r.ret, !.closed = r.closed]
    /\ UNCHANGED <<stack, status>>

\* reset(native_handle_type const&)
ResetNative(i, n) ==
    /\ Idle /\ objs[i].live
    /\ LET r == reset_native(Info(objs[i]), n)
       IN /\ objs' = [objs EXCEPT ![i] = Obj(TRUE, r.obj)]
          /\ last' = [NoOp EXCEPT !.op = "reset_native", !.obj = i, !.pre = Info(objs[i]),
                                  !.arg = TupleOf(n), !.retBool = r.ret, !.closed = r.closed]
    /\ UNCHANGED <<stack, status>>

\* release()
Release(i, pid) ==
    /\ Idle /\ objs[i].live
    /\ pid \in get_process_id(objs[i].m_process)
    /\ LET r == release(Info(objs[i]), pid)
       IN /\ objs' = [objs EXCEPT ![i] = Obj(TRUE, r.obj)]
          /\ last' = [NoOp EXCEPT !.op = "release", !.obj = i, !.pre = Info(objs[i]),
                                  !.retTuple = r.ret, !.closed = r.closed]
    /\ UNCHANGED <<stack, status>>

\* i.reset(std::move(t)) for the tuple t that the call just before, j.release(), returned
ResetReleased(i) ==
    /\ Idle /\ objs[i].live /\ last.op = "release"
    /\ LET r == reset_tuple(Info(objs[i]), last.retTuple)
       IN /\ objs' = [objs EXCEPT ![i] = Obj(TRUE, r.obj)]
          /\ last' = [NoOp EXCEPT !.op = "release_reset", !.obj = i, !.other = last.obj,
                                  !.pre = Info(objs[i]), !.preOther = last.pre,
                                  !.arg = last.retTuple, !.retBool = r.ret,
                                  !.closed = last.closed \o r.closed]
    /\ UNCHANGED <<stack, status>>

\* static_cast<bool>(object)
Bool(i) ==
    /\ Idle /\ objs[i].live
    /\ last' = [NoOp EXCEPT !.op = "bool", !.obj = i, !.pre = Info(objs[i]),
                            !.retBool = OperatorBool(Info(objs[i]))]
    /\ UNCHANGED <<objs, stack, status>>

\* native_handle(); other tells whether the call just before constructed this
\* object from a native structure, arg then being that structure
NativeHandle(i, pid) ==
    /\ Idle /\ objs[i].live
    /\ pid \in get_process_id(objs[i].m_process)
    /\ LET fresh == last.op = "construct_native" /\ last.obj = i
       IN last' = [NoOp EXCEPT !.op = "native_handle", !.obj = i, !.pre = Info(objs[i]),
                               !.other = IF fresh THEN i ELSE 0,
                               !.arg = IF fresh THEN last.arg ELSE ZeroTuple,
                               !.retTuple = TupleOf(native_handle(Info(objs[i]), pid))]
    /\ UNCHANGED <<objs, stack, status>>

\* swap(process_information&, process_information&)
swap(o, i, j) ==
    [o EXCEPT ![i] = Obj(TRUE, Info(o[j])), ![j] = Obj(TRUE, Info(o[i]))]

Swap(i, j) ==
    /\ Idle /\ objs[i].live /\ objs[j].live
    /\ objs' = swap(objs, i, j)
    /\ last' = [NoOp EXCEPT !.op = "swap", !.obj = i, !.other = j,
                            !.pre = Info(objs[i]), !.preOther = Info(objs[j])]
    /\ UNCHANGED <<stack, status>>

\* object == tuple and the three other operators, as the program's only call
CompareTuple(i, t, pid) ==
    /\ Idle /\ objs[i].live /\ last = NoOp
    /\ LET p == Info(objs[i])
           u == <<pid, t[2], t[3], t[4]>>
       IN last' = [NoOp EXCEPT !.op = "compare_tuple", !.obj = i, !.pre = p, !.arg = t,
                    !.cmp = <<EqualsTuple(p, t), TupleEquals(t, p),
                              NotEqualsTuple(p, t), TupleNotEquals(t, p)>>,
                    !.cmpAlt = <<EqualsTuple(p, u), TupleEquals(u, p),
                                 NotEqualsTuple(p, u), TupleNotEquals(u, p)>>]
    /\ UNCHANGED <<objs, stack, status>>

\* object == native structure and the three other operators
CompareNative(i, n, pid) ==
    /\ Idle /\ objs[i].live /\ last = NoOp
    /\ LET p == Info(objs[i])
           u == [n EXCEPT !.dwProcessId = pid]
       IN last' = [NoOp EXCEPT !.op = "compare_native", !.obj = i, !.pre = p,
                    !.arg = TupleOf(n),
                    !.cmp = <<EqualsNative(p, n), NativeEquals(n, p),
                              NotEqualsNative(p, n), NativeNotEquals(n, p)>>,
                    !.cmpAlt = <<EqualsNative(p, u), NativeEquals(u, p),
                                 NotEqualsNative(p, u), NativeNotEquals(u, p)>>]
    /\ UNCHANGED <<objs, stack, status>>

\* object == object and the three other operators
CompareInfo(i, j) ==
    /\ Idle /\ objs[i].live /\ objs[j].live /\ last = NoOp
    /\ LET r == <<EqualsInfo(objs, i, j), EqualsInfo(objs, j, i),
                  NotEqualsInfo(objs, i, j), NotEqualsInfo(objs, j, i)>>
       IN last' = [NoOp EXCEPT !.op = "compare_info", !.obj = i, !.other = j,
                    !.pre = Info(objs[i]), !.preOther = Info(objs[j]),
                    !.cmp = r, !.cmpAlt = r]
    /\ UNCHANGED <<objs, stack, status>>

\* ------------------------------------------------------------ operator=
\* A frame is one call dst = std::move(src) in progress.  Line 46 calls the
\* qualified std::swap, i.e. the generic
\*     T tmp(std::move(a)); a = std::move(b); b = std::move(tmp);
\* whose two assignments are again process_information::operator=.
\*   "entry"  : at line 43
\*   "first"  : tmp constructed, about to run  dst = std::move(src)
\*   "second" : about to run  src = std::move(tmp)
\*   "fin"    : about to destroy tmp and return
Frame(dst, src, pc) == [dst |-> dst, src |-> src, pc |-> pc]

Top == stack[Len(stack)]

Pop == SubSeq(stack, 1, Len(stack) - 1)

SetPc(pc) == [stack EXCEPT ![Len(stack)].pc = pc]

\* a = std::move(b) written in the client program: i is a, j is b
MoveAssign(i, j) ==
    /\ Idle /\ objs[i].live /\ objs[j].live
    /\ stack' = <<Frame(i, j, "entry")>>
    /\ last' = [NoOp EXCEPT !.op = "move_assign", !.obj = i, !.other = j,
                            !.pre = Info(objs[i]), !.preOther = Info(objs[j]),
                            !.outcome = "running"]
    /\ UNCHANGED <<objs, status>>

\* return *this
Return ==
    /\ stack' = Pop
    /\ last' = IF Len(stack) = 1 THEN [last EXCEPT !.outcome = "returned"] ELSE last
    /\ UNCHANGED status

\* a nested call dst = std::move(src), or stack exhaustion when no frame is left
Call(dst, src, resume) ==
    IF Len(stack) < MaxDepth
    THEN /\ stack' = Append(SetPc(resume), Frame(dst, src, "entry"))
         /\ UNCHANGED <<objs, status, last>>
    ELSE /\ status' = "overflow"
         /\ last' = [last EXCEPT !.outcome = "overflow"]
         /\ UNCHANGED <<objs, stack>>

\* one step of the innermost operator= in progress
MoveAssignStep ==
    /\ status = "ok" /\ stack # <<>>
    /\ LET f == Top
           tmp == TmpSlot(Len(stack))
       IN CASE f.pc = "entry" ->
                 IF EqualsInfo(objs, f.dst, f.src)
                 THEN Return /\ UNCHANGED objs
                 ELSE LET m == move_construct(Info(objs[f.dst]))
                      IN /\ objs' = [objs EXCEPT ![tmp] = Obj(TRUE, m.obj),
                                                 ![f.dst] = Obj(TRUE, m.other)]
                         /\ last' = [last EXCEPT !.closed = @ \o m.closed]
                         /\ stack' = SetPc("first")
                         /\ UNCHANGED status
            [] f.pc = "first" -> Call(f.dst, f.src, "second")
            [] f.pc = "second" -> Call(f.src, tmp, "fin")
            [] f.pc = "fin" ->
                 /\ objs' = [objs EXCEPT ![tmp] = DeadObj]
                 /\ last' = [(IF Len(stack) = 1 THEN [last EXCEPT !.outcome = "returned"]
                                                ELSE last)
                             EXCEPT !.closed = @ \o destroy(Info(objs[tmp])).closed]
                 /\ stack' = Pop
                 /\ UNCHANGED status

\* ------------------------------------------------------- specifications
\* Spec: the whole interface of one object, its inputs ranging over every
\* native structure and every decomposed tuple.
Next ==
    \/ Construct(1) /\ Aside
    \/ \E n \in NativeTypes : ConstructNative(1, n) /\ Aside
    \/ Destroy(1) /\ Aside
    \/ Close(1) /\ Aside
    \/ \E t \in DeconstructTypes : ResetTuple(1, t) /\ Aside
    \/ \E n \in NativeTypes : ResetNative(1, n) /\ Aside
    \/ \E pid \in ProcessIds : Release(1, pid) /\ Aside
    \/ ResetReleased(1) /\ Aside
    \/ Bool(1) /\ Aside
    \/ \E pid \in ProcessIds : NativeHandle(1, pid) /\ Aside

Spec == Init /\ [][Next]_vars

\* SpecMove: several objects, each default-constructed or constructed from
\* one and the same native structure, and the operations that move contents
\* between objects.
InitMove ==
    /\ \E n \in Infos : \E f \in [Objects -> {n, EmptyInfo}] :
          objs = [s \in Slots |-> IF s \in Objects THEN Obj(TRUE, f[s]) ELSE DeadObj]
    /\ stack = <<>>
    /\ status = "ok"
    /\ last = NoOp
    /\ ledger = NoLedger
    /\ TimerIdle

NextMove ==
    \/ \E i, j \in Objects : MoveConstruct(i, j) /\ Aside
    \/ \E i \in Objects : Destroy(i) /\ Aside
    \/ \E i \in Objects : Close(i) /\ Aside
    \/ \E i \in Objects, pid \in ProcessIds : Release(i, pid) /\ Aside
    \/ \E i \in Objects : ResetReleased(i) /\ Aside
    \/ \E i, j \in Objects : Swap(i, j) /\ Aside
    \/ \E i, j \in Objects : MoveAssign(i, j) /\ Aside
    \/ MoveAssignStep /\ Aside

SpecMove == InitMove /\ [][NextMove]_vars

\* SpecCmp: the objects of SpecMove and one comparison of an object with a
\* decomposed tuple, a native structure or another object.
NextCmp ==
    \/ /\ last = NoOp
       /\ \E i \in Objects, t \in DeconstructTypes, pid \in ProcessIds : CompareTuple(i, t, pid)
       /\ Aside
    \/ /\ last = NoOp
       /\ \E i \in Objects, n \in NativeTypes, pid \in ProcessIds : CompareNative(i, n, pid)
       /\ Aside
    \/ /\ last = NoOp
       /\ \E i, j \in Objects : CompareInfo(i, j)
       /\ Aside

SpecCmp == InitMove /\ [][NextCmp]_vars

\* a raw handle value owned by the objects in two different slots, or twice by one
Owned(o, s) == {o[s].m_process, o[s].m_process_thread_handle} \ {InvalidHandle}

Exclusive(o) ==
    /\ \A s1, s2 \in Slots : s1 # s2 => Owned(o, s1) \cap Owned(o, s2) = {}
    /\ \A s \in Slots : handle_valid(o[s].m_process) => o[s].m_process # o[s].m_process_thread_handle

\* SpecExcl: as SpecMove, the objects constructed from native structures
\* that hold pairwise distinct handle values, the thread id being that of
\* the thread handle (0 when there is none)
InitExcl ==
    /\ \E f \in [Objects -> Infos] :
          objs = [s \in Slots |-> IF s \in Objects THEN Obj(TRUE, f[s]) ELSE DeadObj]
    /\ Exclusive(objs)
    /\ \A i \in Objects :
          ~handle_valid(objs[i].m_process_thread_handle) => objs[i].m_process_thread_id = 0
    /\ stack = <<>>
    /\ status = "ok"
    /\ last = NoOp
    /\ ledger = NoLedger
    /\ TimerIdle

SpecExcl == InitExcl /\ [][NextMove]_vars

\* ------------------------------------------------------------ the ledger
\* the valid raw handles of a decomposed tuple
HandlesOf(t) == {t[3], t[4]} \ {InvalidHandle}

\* CloseHandle on each handle of the sequence hs, in order
RECURSIVE Closes(_, _)
Closes(l, hs) ==
    IF hs = <<>> THEN l
    ELSE LET h == Head(hs)
         IN Closes(IF l.at[h] = "free" THEN [l EXCEPT !.twice = @ \cup {h}]
                                       ELSE [l EXCEPT !.at[h] = "free"],
                   Tail(hs))

\* the open handles hs pass to an object ("owned") or to the client ("out")
Gives(l, hs, to) ==
    [l EXCEPT !.at = [h \in DOMAIN l.at |-> IF h \in hs THEN to ELSE l.at[h]]]

\* the ledger after the operation recorded in la: a constructor or reset is
\* handed open handles and may close handles, release() hands its handles to
\* the client, the other operations only close
Account(l, la) ==
    CASE la.op \in {"construct_native", "reset_tuple", "reset_native", "release_reset"} ->
            Closes(Gives(l, HandlesOf(la.arg), "owned"), la.closed)
      [] la.op = "release" -> Gives(l, HandlesOf(la.retTuple), "out")
      [] OTHER -> Closes(l, la.closed)

\* the client may hand the tuple t to object i: its valid handles are two
\* different ones, each fresh from the system, released to the client
\* before, or read from object i itself with native_handle(); the process
\* id, which plays no part in ownership, is left 0
MayHold(i, t) ==
    /\ t[1] = 0
    /\ t[3] = InvalidHandle \/ t[3] # t[4]
    /\ \A h \in HandlesOf(t) : ledger.at[h] # "owned" \/ h \in Owned(objs, i)

\* the step is entered in the ledger; what the program does after a double
\* close is not followed
Kept ==
    /\ ledger.twice = {}
    /\ ledger' = Account(ledger, last')
    /\ UNCHANGED timerVars

\* SpecLife: the life of object 1, from construction to destruction, with
\* the ledger kept; the other objects are those it is moved to and from.
NextLife ==
    \/ \E i \in Objects : Construct(i) /\ Kept
    \/ \E n \in NativeTypes : MayHold(1, TupleOf(n)) /\ ConstructNative(1, n) /\ Kept
    \/ \E i, j \in Objects : MoveConstruct(i, j) /\ Kept
    \/ \E i \in Objects : Destroy(i) /\ Kept
    \/ Close(1) /\ Kept
    \/ \E t \in DeconstructTypes : MayHold(1, t) /\ ResetTuple(1, t) /\ Kept
    \/ \E n \in NativeTypes : MayHold(1, TupleOf(n)) /\ ResetNative(1, n) /\ Kept
    \/ \E pid \in ProcessIds : Release(1, pid) /\ Kept
    \/ ResetReleased(1) /\ Kept

SpecLife == Init /\ [][NextLife]_vars

\* ------------------------------------------------------- the timer tests
\* The test thread runs the statements of a timer test; the timer's thread
\* invokes the callback when the due time or a period has elapsed.  Time
\* passes only up to the next deadline, and not while a callback runs: the
\* timer's thread is taken to run the callback when it is due.

\* manual_reset_event callback_event{false}; bool called{false};
\* delayed_callback / synchronization_timer timer(callback, state)
TestConstruct(kind, state) ==
    /\ test.pc = "construct"
    /\ timer' = [NoTimer EXCEPT !.kind = kind, !.state = state]
    /\ event' = NoEvent
    /\ test' = [test EXCEPT !.pc = "start", !.called = FALSE]
    /\ UNCHANGED <<now, infoVars, ledger>>

\* timer.start(due_time, period), and the catch clause when it throws; the
\* timer of a test that caught the exception is destroyed with its scope
TestStart(due_time, period) ==
    /\ test.pc = "start"
    /\ LET r == start(due_time, period)
       IN /\ timer' = [timer EXCEPT !.armed = r.armed, !.period = period,
                                    !.next = IF r.armed THEN now + due_time ELSE -1]
          /\ test' = [test EXCEPT !.pc = IF r.error = "" THEN "wait" ELSE "caught",
                                  !.due = due_time, !.period = period,
                                  !.error = r.error]
    /\ UNCHANGED <<event, now, infoVars, ledger>>

\* callback_event.wait_one(1s): the test thread begins to wait
TestWaitBegin ==
    /\ test.pc = "wait"
    /\ test' = [test EXCEPT !.pc = "blocked", !.waitStart = now,
                            !.waitAfterSet = event.wasSet]
    /\ UNCHANGED <<timer, event, now, infoVars, ledger>>

\* callback_event.wait_one(1s) returns
TestWaitEnd ==
    /\ test.pc = "blocked"
    /\ LET r == wait_one(event, now - test.waitStart, Timeout)
       IN /\ r # "pending"
          /\ test' = [test EXCEPT !.pc = "assert", !.waitResult = r,
                                  !.setSeen = event.wasSet]
    /\ UNCHANGED <<timer, event, now, infoVars, ledger>>

\* ASSERT_TRUE(called), then the end of the test: the timer is destroyed
TestAssert ==
    /\ test.pc = "assert"
    /\ test' = [test EXCEPT !.pc = "done", !.read = test.called]
    /\ timer' = [timer EXCEPT !.armed = FALSE]
    /\ UNCHANGED <<event, now, infoVars, ledger>>

\* an invocation of the callback is due
TimerDue == timer.armed /\ timer.next # -1 /\ timer.fires < MaxFires

\* the timer's thread invokes callback(state); the callback's statements run
\* only if  state == expected_state
TimerFire ==
    /\ TimerDue /\ timer.cb = 0 /\ now >= timer.next
    /\ timer' = [timer EXCEPT !.fires = @ + 1,
                              !.next = IF timer.period > 0 THEN @ + timer.period ELSE -1,
                              !.arg = timer.state,
                              !.thread = "timer",
                              !.cb = IF timer.state = ExpectedState THEN 1 ELSE 0]
    /\ UNCHANGED <<event, test, now, infoVars, ledger>>

\* the running callback executes its next statement
CallbackStep ==
    /\ timer.cb # 0
    /\ timer' = [timer EXCEPT !.cb = IF timer.cb = Len(callback_body) THEN 0 ELSE @ + 1]
    /\ CASE callback_body[timer.cb] = "called" ->
                /\ test' = [test EXCEPT !.called = TRUE]
                /\ UNCHANGED event
         [] callback_body[timer.cb] = "set" ->
                /\ event' = event_set(event)
                /\ UNCHANGED test
    /\ UNCHANGED <<now, infoVars, ledger>>

\* the times at which something happens without a thread's doing
Deadlines ==
    (IF TimerDue THEN {timer.next} ELSE {})
        \cup (IF test.pc = "blocked" THEN {test.waitStart + Timeout} ELSE {})

\* time passes up to the next deadline
Tick ==
    /\ timer.cb = 0
    /\ Deadlines # {}
    /\ \A d \in Deadlines : now < d
    /\ now' = CHOOSE d \in Deadlines : \A e \in Deadlines : d <= e
    /\ UNCHANGED <<timer, event, test, infoVars, ledger>>

\* SpecTimer: one timer test, for each timer type, state value and pair of
\* durations.
NextTimer ==
    \/ \E kind \in TimerKinds, state \in StateValues : TestConstruct(kind, state)
    \/ \E due_time, period \in Durations : TestStart(due_time, period)
    \/ TestWaitBegin
    \/ TestWaitEnd
    \/ TestAssert
    \/ TimerFire
    \/ CallbackStep
    \/ Tick

SpecTimer == Init /\ [][NextTimer]_vars

\* SpecTimerFair: the threads are native threads, each scheduled again and
\* again, and time does not stop.
SpecTimerFair ==
    /\ SpecTimer
    /\ WF_vars(TestWaitBegin) /\ WF_vars(TestWaitEnd) /\ WF_vars(TestAssert)
    /\ WF_vars(TimerFire) /\ WF_vars(CallbackStep) /\ WF_vars(Tick)

\* ================================================================ claims
\* the (thread_id, raw process handle, raw thread handle) triple of a tuple
TripleOf(t) ==
    [m_process_thread_id |-> t[2], m_process |-> t[3], m_process_thread_handle |-> t[4]]

\* the valid handles an object with members p owns, process handle first
OwnedSeq(p) == SelectSeq(<<p.m_process, p.m_process_thread_handle>>, handle_valid)

BothValid(p) == p.m_process # InvalidHandle /\ p.m_process_thread_handle # InvalidHandle

Finished(op) == last.op = op /\ last.outcome # "running"

\* C1: a move-assignment a = std::move(b) of two unequal objects returns, and
\* then a holds what b held, b holds what a held, and nothing was closed.
C1_MoveAssignSwaps ==
    (Finished("move_assign") /\ last.obj # last.other /\ last.pre # last.preOther)
        => /\ last.outcome = "returned"
           /\ Info(objs[last.obj]) = last.preOther
           /\ Info(objs[last.other]) = last.pre
           /\ last.closed = <<>>

\* C2: a move-assignment whose source and destination are the same object or
\* hold the same triple returns leaving both unchanged and closing nothing.
C2_EqualMoveAssignIsNoOp ==
    (Finished("move_assign") /\ (last.obj = last.other \/ last.pre = last.preOther))
        => /\ last.outcome = "returned"
           /\ Info(objs[last.obj]) = last.pre
           /\ Info(objs[last.other]) = last.preOther
           /\ last.closed = <<>>

C2_Witness ==
    /\ last.op = "move_assign" /\ last.outcome = "returned"
    /\ last.obj # last.other /\ last.pre = last.preOther /\ BothValid(last.pre)

\* C3: close() on an object that is not empty zeroes the thread id and closes
\* both handles; close() on an empty object changes nothing.
C3_CloseEmpties ==
    last.op = "close"
        => IF last.pre # EmptyInfo
           THEN Info(objs[last.obj]) = EmptyInfo /\ last.closed = OwnedSeq(last.pre)
           ELSE Info(objs[last.obj]) = EmptyInfo /\ last.closed = <<>>

\* C4: a second close() right after a close() changes nothing, closes nothing,
\* and leaves operator bool() false.
C4_CloseIdempotent ==
    (last.op = "close" /\ last.again)
        => /\ Info(objs[last.obj]) = last.pre
           /\ ~BothValid(Info(objs[last.obj]))
           /\ last.closed = <<>>

C4_Witness == last.op = "close" /\ last.again /\ Len(last.before) = 2

\* C5: reset(x) with x's triple equal to the object's is a no-op that closes
\* nothing and returns the object's operator bool().
C5_ResetEqualIsNoOp ==
    (last.op \in {"reset_tuple", "reset_native"} /\ TripleOf(last.arg) = last.pre)
        => /\ Info(objs[last.obj]) = last.pre
           /\ last.closed = <<>>
           /\ last.retBool = BothValid(last.pre)

C5_Witness ==
    /\ last.op = "reset_native" /\ TripleOf(last.arg) = last.pre /\ BothValid(last.pre)
    /\ last.retBool

C7_ReleaseEmpties ==
    last.op = "release"
        => /\ TripleOf(last.retTuple) = last.pre
           /\ last.closed = <<>>
           /\ Info(objs[last.obj]) = EmptyInfo
           /\ ~BothValid(Info(objs[last.obj]))

C7_Witness == last.op = "release" /\ BothValid(last.pre) /\ last.pre.m_process_thread_id # 0

\* C8: release() followed at once by reset() of the returned tuple on the same
\* object restores the triple the object held, closing nothing on the way.
C8_ReleaseResetRestores ==
    (last.op = "release_reset" /\ last.obj = last.other)
        => /\ Info(objs[last.obj]) = last.preOther
           /\ last.closed = <<>>

C8_Witness ==
    /\ last.op = "release_reset" /\ last.obj = last.other
    /\ Len(OwnedSeq(last.preOther)) = 1 /\ last.preOther.m_process_thread_id # 0

\* C9: operator bool() returns true exactly when both handles are valid.
C9_BoolIffBothValid ==
    last.op = "bool" => (last.retBool <=> BothValid(last.pre))

C9_Witness == last.op = "bool" /\ Len(OwnedSeq(last.pre)) = 1 /\ ~last.retBool

\* C10: starting from objects that own pairwise distinct handle values, no
\* valid handle value is ever owned by two objects (temporaries included).
C10_ExclusiveOwnership == Exclusive(objs)

C10_Witness ==
    /\ last.op = "release_reset" /\ last.obj # last.other
    /\ BothValid(Info(objs[last.obj])) /\ Info(objs[last.obj]) = last.preOther

\* C11 (as claimed): native_handle() right after construction from a native
\* structure n returns n's handles and thread id, a process id that is n's or
\* 0, and leaves the object as it was.
C11_NativeRoundTrip ==
    (last.op = "native_handle" /\ last.other = last.obj)
        => /\ TripleOf(last.retTuple) = TripleOf(last.arg)
           /\ last.retTuple[1] \in {last.arg[1], 0}
           /\ Info(objs[last.obj]) = last.pre

\* C11 (amended): native_handle() right after construction from a native
\* structure n returns n's handles and thread id and leaves the object as it
\* was; the process id is the one the system reports for n's process handle,
\* or 0, and 0 when that handle is invalid; so it is n's process id or 0
\* whenever n's process id is the one that goes with its process handle.
C11_NativeRoundTripAmended ==
    (last.op = "native_handle" /\ last.other = last.obj)
        => /\ TripleOf(last.retTuple) = TripleOf(last.arg)
           /\ last.retTuple[1] \in {PidOf(last.arg[3]), 0}
           /\ (last.arg[3] = InvalidHandle => last.retTuple[1] = 0)
           /\ (last.arg[1] = PidOf(last.arg[3]) => last.retTuple[1] \in {last.arg[1], 0})
           /\ Info(objs[last.obj]) = last.pre /\ TripleOf(last.arg) = last.pre

C11_Witness ==
    /\ last.op = "native_handle" /\ last.other = last.obj
    /\ last.arg[3] # InvalidHandle /\ last.arg[4] # InvalidHandle /\ last.arg[2] # 0
    /\ last.retTuple = last.arg /\ last.retTuple[1] # 0

\* C12: ==, in both argument orders, tells whether the thread id and the two
\* raw handles agree, whatever the right operand's process id; != is its
\* negation.
C12_EqualityByTriple ==
    (last.op \in {"compare_tuple", "compare_native", "compare_info"})
        => LET same == IF last.op = "compare_info"
                       THEN last.obj = last.other \/ last.pre = last.preOther
                       ELSE TripleOf(last.arg) = last.pre
           IN /\ last.cmp = <<same, same, ~same, ~same>>
              /\ last.cmpAlt = last.cmp

C12_Witness ==
    /\ last.op = "compare_tuple" /\ last.cmp[1] /\ BothValid(last.pre)
    /\ last.pre.m_process_thread_id # 0 /\ last.arg[1] # 0

\* the test thread has executed timer.start(test.due, test.period)
Started == test.pc \notin {"construct", "start"}

\* C13: start(due_time, period) with due_time < 0 throws invalid_argument with
\* the message "due_time must be greater than or equal to zero", for either
\* timer type and for every period, a negative one included; the timer is
\* not armed.
C13_NegativeDueTime ==
    (Started /\ test.due < 0)
        => /\ test.pc = "caught"
           /\ test.error = "due_time must be greater than or equal to zero"
           /\ ~timer.armed /\ timer.fires = 0

C13_Witness ==
    /\ test.pc = "caught" /\ timer.kind = "synchronization_timer"
    /\ test.due < 0 /\ test.period < 0 /\ test.error = DueTimeMessage

\* C14: start(due_time, period) with due_time >= 0 and period < 0 throws
\* invalid_argument with the message "period must be greater than or equal to
\* zero", and the timer is not armed: its callback is never invoked.
C14_NegativePeriod ==
    (Started /\ test.due >= 0 /\ test.period < 0)
        => /\ test.pc = "caught"
           /\ test.error = "period must be greater than or equal to zero"
           /\ ~timer.armed /\ timer.next = -1 /\ timer.fires = 0 /\ ~test.called

C14_Witness ==
    /\ test.pc = "caught" /\ timer.kind = "delayed_callback"
    /\ test.due = 0 /\ test.period < 0 /\ test.error = PeriodMessage

\* C15: after a start(due_time, period) that succeeded, the callback is
\* eventually invoked, on the timer's thread, with the state the timer was
\* constructed with; and when that state is the expected one (3), the test
\* thread eventually finds the event signaled and then reads called == true.
C15_CallbackObserved ==
    /\ (test.pc = "wait")
          ~> (timer.fires > 0 /\ timer.thread = "timer" /\ timer.arg = timer.state)
    /\ (test.pc = "wait" /\ timer.state = ExpectedState)
          ~> (test.pc = "done" /\ test.waitResult = "signaled" /\ test.read)

C15_Witness ==
    /\ test.pc = "done" /\ test.waitResult = "signaled" /\ test.read
    /\ ~test.waitAfterSet /\ timer.arg = 3 /\ timer.thread = "timer"
    /\ test.due = 10 /\ test.period = 100

\* C16: the event, constructed unsignaled, stays signaled once set() (the
\* tests never reset it), so wait_one reports it signaled whenever set() was
\* called before the wait returned, whether before or after the wait began.
C16_StaysSignaled ==
    /\ event.wasSet => event.signaled
    /\ (test.waitResult # "none" /\ test.setSeen) => test.waitResult = "signaled"
    /\ (test.waitResult = "signaled") => test.setSeen

C16_Witness ==
    /\ test.waitResult = "signaled" /\ test.waitAfterSet /\ event.signaled
    /\ test.pc = "done"

\* C17: every move-assignment terminates: the nested operator= calls it
\* makes through std::swap never exhaust the call stack, and the call
\* returns.
C17_MoveAssignTerminates ==
    /\ status = "ok"
    /\ Len(stack) <= MaxDepth
    /\ last.op = "move_assign" => last.outcome \in {"running", "returned"}

\* C18: reset(x) never leaves the object owning a handle that this very
\* reset closed; a handle x shares with the object is still open afterwards.
C18_ResetKeepsOwnedOpen ==
    (last.op \in {"reset_tuple", "reset_native"})
        => \A k \in 1..Len(last.closed) : last.closed[k] \notin Owned(objs, last.obj)

\* C19: b(std::move(a)) closes nothing, leaves b holding what a held and a
\* empty (equal to the decomposed zero state and to a default-constructed
\* object); destroying a right afterwards closes nothing and leaves b as it is.
C19_MoveConstructTransfers ==
    /\ (last.op = "move_construct")
          => /\ last.closed = <<>>
             /\ Info(objs[last.obj]) = last.preOther
             /\ objs[last.other] = Obj(TRUE, EmptyInfo)
             /\ EqualsTuple(Info(objs[last.other]), ZeroTuple)
    /\ (last.op = "destroy" /\ last.other # 0)
          => /\ last.closed = <<>>
             /\ last.pre = EmptyInfo
             /\ objs[last.other].live

C19_Witness ==
    /\ last.op = "destroy" /\ last.other # 0
    /\ BothValid(Info(objs[last.other])) /\ objs[last.other].m_process_thread_id # 0

\* C20: over the life of the objects no handle is closed twice, and a handle
\* an object adopted and did not release is open only as long as an object
\* owns it: destruction leaves none open.
C20_ClosedExactlyOnce ==
    /\ ledger.twice = {}
    /\ \A h \in DOMAIN ledger.at :
          ledger.at[h] = "owned" => \E s \in Slots : objs[s].live /\ h \in Owned(objs, s)

====
